---- MODULE Spec2Model ----
(***************************************************************************)
(* Lazily evaluated caches of src/src/lib.rs:                              *)
(*   Cache<T>        calc + RefCell<Option<T>>   (single owner)            *)
(*   AtomicCache<T>  calc + RwLock<Option<T>>    (shared between threads)  *)
(* The program constructs one cache, of either kind.  Variables starting   *)
(* with c belong to the Cache instance, used by its owner; the others to   *)
(* the AtomicCache instance, shared by the threads of Threads.             *)
(***************************************************************************)
EXTENDS Integers, Sequences, FiniteSets

\* ---- bounds -------------------------------------------------------------
NumThreads == 2
MaxGets == 3
NumValues == 2

Threads == 1..NumThreads
Values == 0..(NumValues - 1)

\* Option::None of the slot; every Some(v) is the value v itself.
None == -1
\* RwLock with no writer holding it.
NoWriter == 0

VARIABLES
    kind,       \* the cache the program constructed: "Cache" or "AtomicCache"
    cData,      \* Cache.data: the RefCell's content, None or a value
    cBorrows,   \* number of live Ref borrows of Cache.data (one per CacheRef)
    cCalls,     \* how many times Cache.calc was invoked
    cResults,   \* the results of those invocations, in order
    cGets,      \* Cache::get calls made
    cSeen,      \* values shown by CacheRef views (at return and at deref)
    cCalcPanics,\* Cache::get calls that ended in a panic of calc
    cPanic,     \* "no", or the panic that ended Cache's owner: "BorrowMutError"
                \* (replace while a Ref is alive) or "unwrap" (deref of None)
    aData,      \* AtomicCache.data: the RwLock's content
    aReaders,   \* read guards of the RwLock that are alive
    aWriter,    \* thread holding the write guard, or NoWriter
    writerPref, \* the platform's RwLock blocks read() while a writer waits
    aCalls,     \* how many times AtomicCache.calc was invoked
    aFirst,     \* the result of the first invocation of calc, None before it
    aResults,   \* the set of the results of all invocations
    aStores,    \* the values stored into the slot, in order
    pc,         \* per thread: its position in AtomicCache::get
    local,      \* per thread: `data`, the result of its calc() call
    empty,      \* per thread, inside get(): what is_none() of line 110 returned
    views,      \* per thread: AtomicCacheRef views it holds
    aGets,      \* AtomicCache::get calls made, by all threads
    aSeen,      \* values shown by AtomicCacheRef views (at return and deref)
    aPanic,     \* a thread panicked in AtomicCacheRef::deref (unwrap of None)
    aEarlyTests,\* tests of line 110 made before the first store
    aCalcPanics,\* AtomicCache::get calls that ended in a panic of calc
    aPoisoned,  \* the RwLock is poisoned: a write guard was dropped in a panic
    aPoisonPanic \* a thread panicked in unwrap() of a PoisonError (lines 110-118)

cvars == <<cData, cBorrows, cCalls, cResults, cGets, cSeen, cCalcPanics, cPanic>>
avars == <<aData, aReaders, aWriter, writerPref, aCalls, aFirst, aResults,
           aStores, pc, local, empty, views, aGets, aSeen, aPanic,
           aEarlyTests, aCalcPanics, aPoisoned, aPoisonPanic>>
vars == <<kind, cData, cBorrows, cCalls, cResults, cGets, cSeen, cCalcPanics,
          cPanic,
          aData, aReaders, aWriter, writerPref, aCalls, aFirst, aResults,
          aStores, pc, local, empty, views, aGets, aSeen, aPanic,
          aEarlyTests, aCalcPanics, aPoisoned, aPoisonPanic>>

\* ---- Cache (single owner) -------------------------------------------------

\* Cache::new: calc kept, data = RefCell::new(None).
CacheNew ==
    /\ cData = None
    /\ cBorrows = 0
    /\ cCalls = 0
    /\ cResults = <<>>
    /\ cGets = 0
    /\ cSeen = {}
    /\ cCalcPanics = 0
    /\ cPanic = "no"

\* Mutant of CacheIsNone: the slot is never found populated, get() always
\* recomputes.
CacheIsNoneAlways == TRUE

\* The emptiness test of Cache::get, `self.data.borrow().is_none()`; the
\* temporary Ref is dropped at the end of the condition.
CacheIsNone == cData = None

\* Mutant of CacheTestBorrows: the Ref of the test lives to the end of the if
\* block (as it would in `if let` or `match`).
CacheTestBorrowsKept == cBorrows + 1

\* The Ref borrows alive inside the if block of Cache::get: the temporary Ref
\* of the test is dropped at the end of the condition, those of views remain.
CacheTestBorrows == cBorrows

\* RefCell::replace needs the exclusive borrow: it panics when a Ref is alive.
CacheReplaceOk == CacheTestBorrows = 0

\* Cache::get, the whole call (the owner is one thread: nothing interleaves).
CacheGet ==
    /\ kind = "Cache"
    /\ cPanic = "no"
    /\ cGets < MaxGets
    /\ cGets' = cGets + 1
    /\ IF CacheIsNone
       THEN \E v \in Values :
              /\ cCalls' = cCalls + 1
              /\ cResults' = Append(cResults, v)
              /\ IF CacheReplaceOk
                 THEN /\ cData' = v
                      /\ cBorrows' = cBorrows + 1
                      /\ cSeen' = cSeen \cup {v}
                      /\ cPanic' = cPanic
                 ELSE /\ cPanic' = "BorrowMutError"
                      /\ UNCHANGED <<cData, cBorrows, cSeen>>
       ELSE /\ cBorrows' = cBorrows + 1
            /\ cSeen' = cSeen \cup {cData}
            /\ UNCHANGED <<cData, cCalls, cResults, cPanic>>
    /\ cCalcPanics' = cCalcPanics
    /\ UNCHANGED <<kind, avars>>

\* Cache::get on an empty slot whose calc() panics at line 45: the panic
\* leaves get() before replace(); the owner may catch it and go on.
CacheGetPanic ==
    /\ kind = "Cache"
    /\ cPanic = "no"
    /\ cGets < MaxGets
    /\ CacheIsNone
    /\ cGets' = cGets + 1
    /\ cCalls' = cCalls + 1
    /\ cCalcPanics' = cCalcPanics + 1
    /\ UNCHANGED <<cData, cBorrows, cResults, cSeen, cPanic>>
    /\ UNCHANGED <<kind, avars>>

\* CacheRef::deref: self.0.as_ref().unwrap().
CacheDeref ==
    /\ kind = "Cache"
    /\ cPanic = "no"
    /\ cBorrows > 0
    /\ IF cData = None
       THEN cPanic' = "unwrap" /\ cSeen' = cSeen
       ELSE cPanic' = cPanic /\ cSeen' = cSeen \cup {cData}
    /\ UNCHANGED <<cData, cBorrows, cCalls, cResults, cGets>>
    /\ cCalcPanics' = cCalcPanics
    /\ UNCHANGED <<kind, avars>>

\* A CacheRef goes out of scope: its Ref borrow ends.
CacheDrop ==
    /\ kind = "Cache"
    /\ cPanic = "no"
    /\ cBorrows > 0
    /\ cBorrows' = cBorrows - 1
    /\ UNCHANGED <<cData, cCalls, cResults, cGets, cSeen, cPanic>>
    /\ cCalcPanics' = cCalcPanics
    /\ UNCHANGED <<kind, avars>>

\* ---- AtomicCache (shared) --------------------------------------------------

\* AtomicCache::new: calc kept, data = RwLock::new(None).
AtomicNew ==
    /\ aData = None
    /\ aReaders = 0
    /\ aWriter = NoWriter
    /\ writerPref \in BOOLEAN
    /\ aCalls = 0
    /\ aFirst = None
    /\ aResults = {}
    /\ aStores = <<>>
    /\ pc = [t \in Threads |-> "idle"]
    /\ local = [t \in Threads |-> None]
    /\ empty = [t \in Threads |-> FALSE]
    /\ views = [t \in Threads |-> 0]
    /\ aGets = 0
    /\ aSeen = {}
    /\ aPanic = FALSE
    /\ aEarlyTests = 0
    /\ aCalcPanics = 0
    /\ aPoisoned = FALSE
    /\ aPoisonPanic = FALSE

\* A thread is blocked in write(), waiting for the lock.
WriterWaiting == \E u \in Threads : pc[u] = "write"

\* RwLock::read returns: no writer holds the lock and, on a platform whose
\* lock prefers writers, no writer is waiting for it.
CanRead == aWriter = NoWriter /\ (writerPref => ~WriterWaiting)

\* Mutant of CanWrite: the write lock is granted while read guards are alive.
CanWriteDespiteReaders == aWriter = NoWriter

\* RwLock::write returns: nobody holds the lock.
CanWrite == aWriter = NoWriter /\ aReaders = 0

\* read() or write() on a poisoned lock returns Err(PoisonError) and the
\* unwrap() of lines 110, 114 and 118 panics: the guard inside the error is
\* dropped and the panic leaves get().
PoisonError(t) ==
    /\ aPoisonPanic' = TRUE
    /\ pc' = [pc EXCEPT ![t] = "idle"]
    /\ local' = [local EXCEPT ![t] = None]
    /\ empty' = [empty EXCEPT ![t] = FALSE]
    /\ UNCHANGED <<aData, aReaders, aWriter, writerPref, aCalls, aFirst,
                   aResults, aStores, views, aGets, aSeen, aPanic,
                   aEarlyTests, aCalcPanics, aPoisoned>>
    /\ UNCHANGED <<kind, cvars>>

\* A thread calls get().
ACall(t) ==
    /\ kind = "AtomicCache"
    /\ pc[t] = "idle"
    /\ aGets < MaxGets
    /\ aGets' = aGets + 1
    /\ pc' = [pc EXCEPT ![t] = "read1"]
    /\ UNCHANGED <<aData, aReaders, aWriter, writerPref, aCalls,
                   aFirst, aResults, aStores, local, empty, views, aSeen, aPanic>>
    /\ UNCHANGED <<kind, cvars, aEarlyTests, aCalcPanics, aPoisoned, aPoisonPanic>>

\* Line 110, self.data.read().unwrap(): the read guard of the test.
ARead1(t) ==
    /\ pc[t] = "read1"
    /\ CanRead
    /\ IF aPoisoned
       THEN PoisonError(t)
       ELSE /\ aReaders' = aReaders + 1
            /\ pc' = [pc EXCEPT ![t] = "test"]
            /\ UNCHANGED <<aData, aWriter, writerPref, aCalls, aFirst,
                           aResults, aStores, local, empty, views, aGets,
                           aSeen, aPanic>>
            /\ UNCHANGED <<kind, cvars, aEarlyTests, aCalcPanics, aPoisoned, aPoisonPanic>>

\* Mutant of TestTarget: the test is ignored, get() always recomputes.
TestTargetAlwaysCalc(isNone) == "calc"

\* Mutant of TestTarget: the test is inverted.
TestTargetInverted(isNone) == IF isNone THEN "read2" ELSE "calc"

\* Where get() goes after the test: into the if block, or to line 118.
TestTarget(isNone) == IF isNone THEN "calc" ELSE "read2"

\* Mutant of TestRelease: the guard of the test lives to the end of the if
\* block (as it would in `if let` or `match`), so it is still held at write().
TestReleaseKept(isNone) == IF isNone THEN aReaders ELSE aReaders - 1

\* The read guards left once the condition of line 110 is evaluated: the
\* temporary guard is dropped there, whatever is_none() returned.
TestRelease(isNone) == aReaders - 1

\* Line 110, .is_none(), and the end of the if condition.
ATest(t) ==
    /\ pc[t] = "test"
    /\ empty' = [empty EXCEPT ![t] = (aData = None)]
    /\ aReaders' = TestRelease(aData = None)
    /\ aEarlyTests' = (IF aStores = <<>> THEN aEarlyTests + 1 ELSE aEarlyTests)
    /\ pc' = [pc EXCEPT ![t] = TestTarget(aData = None)]
    /\ UNCHANGED <<aData, aWriter, writerPref, aCalls, aFirst, aResults,
                   aStores, local, views, aGets, aSeen, aPanic>>
    /\ UNCHANGED <<kind, cvars, aCalcPanics, aPoisoned, aPoisonPanic>>

\* Line 112, calc() is entered; no lock is held.  Its result is any value.
ACalcBegin(t) ==
    /\ pc[t] = "calc"
    /\ \E v \in Values :
         /\ aFirst' = (IF aCalls = 0 THEN v ELSE aFirst)
         /\ aResults' = aResults \cup {v}
         /\ local' = [local EXCEPT ![t] = v]
    /\ aCalls' = aCalls + 1
    /\ pc' = [pc EXCEPT ![t] = "calcing"]
    /\ UNCHANGED <<aData, aReaders, aWriter, writerPref, aStores,
                   empty, views, aGets, aSeen, aPanic>>
    /\ UNCHANGED <<kind, cvars, aEarlyTests, aCalcPanics, aPoisoned, aPoisonPanic>>

\* Mutant of PanicPoisons: every panic inside get() poisons the lock.
PanicPoisonsAlways(t) == TRUE

\* A panic that unwinds out of get() poisons the RwLock when it drops a write
\* guard, that is when the panicking thread is the writer.
PanicPoisons(t) == aWriter = t

\* Line 112, calc() panics instead of returning a value: the panic leaves
\* get() (line 114 is not reached); the thread may catch it and go on.  The
\* unwinding drops the write guard, if the thread holds it.
ACalcPanic(t) ==
    /\ pc[t] = "calc"
    /\ aCalls' = aCalls + 1
    /\ aCalcPanics' = aCalcPanics + 1
    /\ aPoisoned' = (aPoisoned \/ PanicPoisons(t))
    /\ aWriter' = (IF aWriter = t THEN NoWriter ELSE aWriter)
    /\ pc' = [pc EXCEPT ![t] = "idle"]
    /\ empty' = [empty EXCEPT ![t] = FALSE]
    /\ UNCHANGED <<aData, aReaders, writerPref, aFirst, aResults, aStores,
                   local, views, aGets, aSeen, aPanic, aEarlyTests,
                   aPoisonPanic>>
    /\ UNCHANGED <<kind, cvars>>

\* Line 112, calc() returns into `data`.
ACalcEnd(t) ==
    /\ pc[t] = "calcing"
    /\ pc' = [pc EXCEPT ![t] = "write"]
    /\ UNCHANGED <<aData, aReaders, aWriter, writerPref, aCalls, aFirst, aResults,
                   aStores, local, empty, views, aGets, aSeen, aPanic>>
    /\ UNCHANGED <<kind, cvars, aEarlyTests, aCalcPanics, aPoisoned, aPoisonPanic>>

\* Line 114, self.data.write().unwrap().
AWriteLock(t) ==
    /\ pc[t] = "write"
    /\ CanWrite
    /\ IF aPoisoned
       THEN PoisonError(t)
       ELSE /\ aWriter' = t
            /\ pc' = [pc EXCEPT ![t] = "store"]
            /\ UNCHANGED <<aData, aReaders, writerPref, aCalls, aFirst,
                           aResults, aStores, local, empty, views, aGets,
                           aSeen, aPanic>>
            /\ UNCHANGED <<kind, cvars, aEarlyTests, aCalcPanics, aPoisoned, aPoisonPanic>>

\* Mutant of StoredValue: a store into a populated slot clears it.
StoredValueReset(t) == IF aData = None THEN local[t] ELSE None

\* The value line 115 assigns to the slot.
StoredValue(t) == local[t]

\* Line 115, *write = Some(data): `data` is moved into the slot.
AStore(t) ==
    /\ pc[t] = "store"
    /\ aData' = StoredValue(t)
    /\ aStores' = Append(aStores, StoredValue(t))
    /\ local' = [local EXCEPT ![t] = None]
    /\ pc' = [pc EXCEPT ![t] = "unlock"]
    /\ UNCHANGED <<aReaders, aWriter, writerPref, aCalls, aFirst, aResults,
                   empty, views, aGets, aSeen, aPanic>>
    /\ UNCHANGED <<kind, cvars, aEarlyTests, aCalcPanics, aPoisoned, aPoisonPanic>>

\* Line 116, the end of the if block drops the write guard.
AWriteUnlock(t) ==
    /\ pc[t] = "unlock"
    /\ aWriter' = NoWriter
    /\ pc' = [pc EXCEPT ![t] = "read2"]
    /\ UNCHANGED <<aData, aReaders, writerPref, aCalls, aFirst, aResults,
                   aStores, local, empty, views, aGets, aSeen, aPanic>>
    /\ UNCHANGED <<kind, cvars, aEarlyTests, aCalcPanics, aPoisoned, aPoisonPanic>>

\* What a view shows: the slot's value; unwrap() of an empty slot panics.
Shown(seen) == IF aData = None THEN seen ELSE seen \cup {aData}

\* Line 118, AtomicCacheRef::new(self.data.read().unwrap()): get() returns
\* the view, which owns the read guard.
ARead2(t) ==
    /\ pc[t] = "read2"
    /\ CanRead
    /\ IF aPoisoned
       THEN PoisonError(t)
       ELSE /\ aReaders' = aReaders + 1
            /\ views' = [views EXCEPT ![t] = @ + 1]
            /\ aSeen' = Shown(aSeen)
            /\ empty' = [empty EXCEPT ![t] = FALSE]
            /\ pc' = [pc EXCEPT ![t] = "idle"]
            /\ UNCHANGED <<aData, aWriter, writerPref, aCalls, aFirst,
                           aResults, aStores, local, aGets, aPanic>>
            /\ UNCHANGED <<kind, cvars, aEarlyTests, aCalcPanics, aPoisoned, aPoisonPanic>>

\* AtomicCacheRef::deref: self.0.as_ref().unwrap().
ADeref(t) ==
    /\ pc[t] = "idle"
    /\ views[t] > 0
    /\ aSeen' = Shown(aSeen)
    /\ aPanic' = (aPanic \/ aData = None)
    /\ UNCHANGED <<aData, aReaders, aWriter, writerPref, aCalls,
                   aFirst, aResults, aStores, pc, local, empty, views, aGets>>
    /\ UNCHANGED <<kind, cvars, aEarlyTests, aCalcPanics, aPoisoned, aPoisonPanic>>

\* Mutant of DropRelease: dropping the view leaks its read guard.
DropReleaseForgotten == aReaders

\* The read guards left when a view is dropped.
DropRelease == aReaders - 1

\* An AtomicCacheRef goes out of scope: its read guard is released.
ADrop(t) ==
    /\ pc[t] = "idle"
    /\ views[t] > 0
    /\ views' = [views EXCEPT ![t] = @ - 1]
    /\ aReaders' = DropRelease
    /\ UNCHANGED <<aData, aWriter, writerPref, aCalls, aFirst, aResults,
                   aStores, pc, local, empty, aGets, aSeen, aPanic>>
    /\ UNCHANGED <<kind, cvars, aEarlyTests, aCalcPanics, aPoisoned, aPoisonPanic>>

\* ---- specifications -------------------------------------------------------

\* The state after Cache::new or AtomicCache::new.
Init == kind \in {"Cache", "AtomicCache"} /\ CacheNew /\ AtomicNew

\* The steps of one thread inside AtomicCache::get, lines 110 to 118.
GetStep(t) ==
    \/ ARead1(t)
    \/ ATest(t)
    \/ ACalcBegin(t)
    \/ ACalcEnd(t)
    \/ AWriteLock(t)
    \/ AStore(t)
    \/ AWriteUnlock(t)
    \/ ARead2(t)

AtomicStep(t) ==
    \/ ACall(t)
    \/ GetStep(t)
    \/ ADeref(t)
    \/ ADrop(t)

\* The Cache used by its owner or the AtomicCache used by the threads, in
\* any way the API allows (get() again while views are held included).
Next ==
    \/ CacheGet
    \/ CacheDeref
    \/ CacheDrop
    \/ \E t \in Threads : AtomicStep(t)

Spec == Init /\ [][Next]_vars

\* The AtomicCache used sequentially: a get() is called only while no other
\* get() is in progress (one thread, or threads that take turns).
ACallSeq(t) == (\A u \in Threads : pc[u] = "idle") /\ ACall(t)

SeqNext ==
    \E t \in Threads :
        \/ ACallSeq(t)
        \/ GetStep(t)
        \/ ADeref(t)
        \/ ADrop(t)

SeqInit == kind = "AtomicCache" /\ CacheNew /\ AtomicNew

SeqSpec == SeqInit /\ [][SeqNext]_vars

\* The same with the threads of the AtomicCache scheduled fairly:
\* a thread that can take its next step inside get() takes it (a thread
\* blocked in read() or write() goes on once the lock can be had), and a
\* thread that does nothing else with a view it holds drops it.
FairSpec ==
    /\ Init
    /\ [][Next]_vars
    /\ \A t \in Threads : WF_vars(GetStep(t)) /\ WF_vars(ADrop(t))

\* The caches with a calc that may panic: any call of calc() either returns a
\* value or panics.
PanicNext ==
    \/ Next
    \/ CacheGetPanic
    \/ \E t \in Threads : ACalcPanic(t)

PanicSpec == Init /\ [][PanicNext]_vars

\* ---- helpers of the claims ------------------------------------------------

RECURSIVE SumUpTo(_, _)
SumUpTo(f, n) == IF n = 0 THEN 0 ELSE f[n] + SumUpTo(f, n - 1)

\* All views of the AtomicCache that are alive.
TotalViews == SumUpTo(views, NumThreads)

InGet(t) == pc[t] # "idle"

AllIdle == \A t \in Threads : pc[t] = "idle"

\* AtomicCache::get calls that have returned.
Returned == aGets - Cardinality({t \in Threads : InGet(t)})

\* A deadlock: a get() is in progress and no thread can take a step inside
\* get() or drop a view.
Stuck ==
    /\ \E t \in Threads : InGet(t)
    /\ ~ENABLED (\E t \in Threads : GetStep(t) \/ ADrop(t))

\* ---- claims ---------------------------------------------------------------

\* C1: sequential get() calls on one Cache (views dropped or held) invoke
\* calc exactly once in total, and every call returns a view that shows the
\* result of that invocation.
C1_CacheComputesOnce ==
    cGets >= 1 =>
        /\ cPanic = "no"
        /\ cCalls = 1
        /\ Len(cResults) = 1
        /\ cSeen = {cResults[1]}
        /\ cData = cResults[1]

\* C1's case: several get() calls were made, one view was dropped, one is held.
C1_Witness == cGets = MaxGets /\ cBorrows >= 1 /\ cBorrows < cGets

\* C2: get() calls on the AtomicCache that never overlap invoke calc exactly
\* once in total, never block, and every call returns a view that shows the
\* result of that invocation.
C2_SequentialComputesOnce ==
    /\ aCalls <= 1
    /\ ~aPanic
    /\ \A t \in Threads : InGet(t) => ENABLED GetStep(t)
    /\ Returned >= 1 => aCalls = 1
    /\ aCalls = 1 => aSeen \subseteq {aFirst}
    /\ aSeen # {} => aCalls = 1

\* C2's case: every thread made all its calls in turn, some views are held
\* and some were dropped.
C2_Witness ==
    /\ AllIdle
    /\ aGets = MaxGets
    /\ \A t \in Threads : views[t] >= 1
    /\ TotalViews < MaxGets

\* C3: calc of one AtomicCache is invoked at most once, whatever the number
\* of threads and the interleaving of their get() calls.
C3_AtMostOneInvocation == aCalls <= 1

\* C4: when every thread drops the views it received (no thread keeps one
\* for ever), then under fair scheduling the get() calls in progress all
\* return (each call is among them, so each call returns); and no state is
\* a deadlock, except with a thread blocked inside get() that has not
\* dropped a view it received earlier.
C4_EveryGetReturns ==
    /\ [](Stuck => \E t \in Threads : InGet(t) /\ views[t] > 0)
    /\ (\A t \in Threads : []<>(views[t] = 0)) =>
           ((\E t \in Threads : InGet(t)) ~> AllIdle)

\* C4's case: the threads raced on the first access (calc ran more than
\* once, so a writer had to wait its turn) and all calls have returned.
C4_Witness ==
    /\ AllIdle
    /\ aGets = MaxGets
    /\ TotalViews >= 1
    /\ aCalls >= 2
    /\ Len(aStores) >= 2

\* C5: a view that is held, of either cache, refers to a populated slot, so
\* deref's unwrap never fails; when calc only ever returned 0, every view
\* showed 0.
C5_ViewsSeePopulatedSlot ==
    /\ cBorrows > 0 => cData # None
    /\ cPanic # "unwrap"
    /\ \A t \in Threads : views[t] > 0 => aData # None
    /\ ~aPanic
    /\ aResults \subseteq {0} => aSeen \subseteq {0}
    /\ (\A i \in DOMAIN cResults : cResults[i] = 0) => cSeen \subseteq {0}

\* C5's case: concurrent get() calls raced, calc returned 0 each time, one
\* thread holds a view while another waits to store, and views were shown.
C5_Witness ==
    /\ \E t, u \in Threads : views[t] > 0 /\ pc[u] = "write"
    /\ aCalls >= 2
    /\ aSeen = {0}

\* C6: once the slot of a Cache or of an AtomicCache is populated, no step
\* makes it empty again, and a read lock taken after a store finds the slot
\* populated.
C6_NeverEmptyAgain ==
    [][ /\ cData # None => cData' # None
        /\ aData # None => aData' # None
        /\ (aReaders' > aReaders /\ aStores # <<>>) => aData # None ]_vars

\* C6's case: the AtomicCache's slot was stored into again after it was
\* populated, and read locks were taken after the stores.
C6_Witness == aData # None /\ Len(aStores) >= 2 /\ Returned >= 2

\* C7: once the AtomicCache's slot is populated its value is never replaced
\* by a different one, so all views of the instance show equal values, for
\* a calc whose invocations may return different values.
C7_ValueNeverChanges ==
    /\ \A i, j \in DOMAIN aStores : aStores[i] = aStores[j]
    /\ \A v, w \in aSeen : v = w

\* C8: after new() the slot is empty and calc was not invoked; calc is
\* invoked only by a step of a get() call that found the slot empty, never
\* by new(), by a deref or by the drop of a view.
C8_LazyConstruction ==
    /\ cData = None /\ cCalls = 0 /\ aData = None /\ aCalls = 0
    /\ [][ /\ cCalls' # cCalls =>
                cData = None /\ cGets' = cGets + 1 /\ cCalls' = cCalls + 1
           /\ aCalls' # aCalls =>
                /\ aCalls' = aCalls + 1
                /\ \E t \in Threads :
                     pc[t] = "calc" /\ empty[t] /\ pc'[t] = "calcing" ]_vars

\* C8's case: the AtomicCache computed its value, and views were returned,
\* shown and dropped afterwards.
C8_Witness ==
    /\ aCalls >= 1 /\ aSeen # {}
    /\ AllIdle /\ aGets = MaxGets /\ TotalViews < aGets

\* C9: a get() whose test finds the slot populated does not invoke calc,
\* takes no write lock (AtomicCache) or exclusive borrow (Cache) and leaves
\* the slot alone; all it leaves behind is the read lock or borrow of the
\* view it returns.
C9_PopulatedGetIsReadOnly ==
    [][ /\ (cData # None /\ cGets' # cGets) =>
              /\ cData' = cData
              /\ cCalls' = cCalls
              /\ cBorrows' = cBorrows + 1
              /\ cPanic' = "no"
        /\ \A t \in Threads :
              (pc[t] = "test" /\ aData # None /\ pc'[t] # pc[t]) =>
                  /\ pc'[t] = "read2"
                  /\ ~empty'[t]
                  /\ aReaders' = aReaders - 1
                  /\ aData' = aData /\ aCalls' = aCalls /\ aWriter' = aWriter
        /\ \A t \in Threads :
              (pc[t] = "read2" /\ ~empty[t] /\ pc'[t] # pc[t]) =>
                  /\ pc'[t] = "idle"
                  /\ views'[t] = views[t] + 1
                  /\ aReaders' = aReaders + 1
                  /\ aData' = aData /\ aCalls' = aCalls /\ aWriter' = aWriter
      ]_vars

\* C9's case: more get() calls on the AtomicCache have returned than calc was
\* invoked, so one of them found the slot populated; a view is held.
C9_Witness ==
    aCalls >= 1 /\ Returned > aCalls /\ TotalViews >= 1

\* C10: the read locks of the AtomicCache that are held are those of the
\* views that are alive, plus the guard of a test in progress; so with no
\* get() in progress they are as many as the views and no write lock is
\* held, and with all views dropped the lock is free.
C10_ReadLocksAreViews ==
    /\ aReaders = TotalViews + Cardinality({t \in Threads : pc[t] = "test"})
    /\ AllIdle => aReaders = TotalViews /\ aWriter = NoWriter
    /\ (AllIdle /\ TotalViews = 0) => aReaders = 0 /\ aWriter = NoWriter

\* C10's case: every get() has returned, after a race, and every view was
\* dropped.
C10_Witness ==
    /\ AllIdle
    /\ aGets = MaxGets
    /\ TotalViews = 0
    /\ Len(aStores) >= 2

\* Threads that hold the write guard: between write() and the end of the
\* if block.
Storing == {t \in Threads : pc[t] \in {"store", "unlock"}}

\* The last element of a non-empty sequence.
Last(q) == q[Len(q)]

\* C11: the AtomicCache's slot is written only by the thread that holds the
\* write lock and read only under a read lock; the write lock excludes all
\* readers and other writers, so no store happens while a view is alive or
\* another thread is storing, and the value a held view shows never changes.
C11_StoresAreExclusive ==
    /\ [] /\ \A t \in Threads : t \in Storing <=> aWriter = t
          /\ Cardinality(Storing) <= 1
          /\ aWriter # NoWriter => aReaders = 0 /\ TotalViews = 0
          /\ \A t \in Threads : pc[t] = "test" =>
                aReaders >= 1 /\ aWriter = NoWriter
    /\ [][ /\ aStores' # aStores =>
                /\ \E t \in Threads : aWriter = t /\ pc[t] = "store"
                /\ aReaders = 0 /\ TotalViews = 0
           /\ aData' # aData => aStores' # aStores
           /\ TotalViews > 0 => aData' = aData
           /\ aSeen' # aSeen => aReaders' >= 1 /\ aWriter = NoWriter ]_vars

\* C11's case: a thread holds the write lock and is about to store into a
\* slot that is already populated and whose value a view has shown; that view
\* was dropped before the write lock was granted.
C11_Witness ==
    /\ \E t \in Threads : pc[t] = "store" /\ aWriter = t
    /\ aData # None
    /\ aSeen # {}
    /\ aGets >= 2

\* C12 as stated: calc runs while the calling thread holds the write lock, so
\* two invocations never overlap and no other thread holds a read lock while
\* calc runs.
C12_CalcUnderWriteLock ==
    /\ \A t \in Threads : pc[t] = "calcing" => aWriter = t /\ aReaders = 0
    /\ Cardinality({t \in Threads : pc[t] = "calcing"}) <= 1

\* C12 as amended: calc runs while the calling thread holds no lock at all
\* (after the read guard of the test is released, before write() is called);
\* only the store is made under the write lock, by one thread at a time.
C12_CalcHoldsNoLock ==
    /\ \A t \in Threads : pc[t] \in {"calc", "calcing", "write"} =>
          /\ aWriter # t
          /\ views[t] = 0
          /\ empty[t]
    /\ aReaders = TotalViews + Cardinality({t \in Threads : pc[t] = "test"})
    /\ \A t \in Threads : t \in Storing <=> aWriter = t
    /\ Cardinality(Storing) <= 1

\* C12's case: two invocations of calc overlap.
C12_Witness ==
    \E t, u \in Threads : t # u /\ pc[t] = "calcing" /\ pc[u] = "calcing"

\* C13: the slot is empty or holds a result of an invocation of calc on this
\* instance; it always holds the value stored last, and once every get() has
\* returned it is populated with that value, which every view shows.
C13_SlotHoldsAResult ==
    /\ aData = None \/ aData \in aResults
    /\ aData = None <=> aStores = <<>>
    /\ aStores # <<>> => aData = Last(aStores)
    /\ \A i \in DOMAIN aStores : aStores[i] \in aResults
    /\ (AllIdle /\ aGets >= 1) =>
          /\ aStores # <<>>
          /\ aData = Last(aStores)
          /\ TotalViews > 0 => Shown({}) = {Last(aStores)}

\* C13's case: after a race every get() has returned, two different results
\* were stored one after the other, and a view is held.
C13_Witness ==
    /\ AllIdle
    /\ aGets = MaxGets
    /\ Len(aStores) >= 2
    /\ aStores[1] # aStores[2]
    /\ TotalViews >= 1

\* The threads at one of the given positions of get().
At(positions) == {t \in Threads : pc[t] \in positions}

\* C14: a get() of AtomicCache invokes calc at most once, and not at all when
\* its emptiness check runs after a store; the invocations never outnumber
\* the get() calls whose check ran before the first store (nor the threads),
\* and every completed invocation is followed by exactly one store.
C14_InvocationsAreBounded ==
    /\ [] /\ aCalls <= aEarlyTests
          /\ aCalls <= NumThreads
          /\ aEarlyTests = aCalls + Cardinality(At({"calc"}))
          /\ Len(aStores) + Cardinality(At({"write", "store"}))
                = aCalls - Cardinality(At({"calcing"}))
          /\ AllIdle => Len(aStores) = aCalls
    /\ [][ /\ \A t \in Threads :
                /\ (pc'[t] = "test" /\ pc[t] # "test") => pc[t] = "read1"
                /\ (pc'[t] = "read1" /\ pc[t] # "read1") => pc[t] = "idle"
                /\ (pc'[t] = "calc" /\ pc[t] # "calc") => pc[t] = "test"
                /\ (pc'[t] = "calcing" /\ pc[t] # "calcing") =>
                      pc[t] = "calc" /\ aCalls' = aCalls + 1
                /\ (pc[t] = "test" /\ pc'[t] # "test" /\ aStores # <<>>) =>
                      pc'[t] = "read2"
           /\ aCalls' # aCalls =>
                \E t \in Threads : pc[t] = "calc" /\ pc'[t] = "calcing"
           /\ aStores' # aStores =>
                \E t \in Threads : pc[t] = "store" /\ pc'[t] = "unlock" ]_vars

\* C14's case: every thread invoked calc, every invocation was stored, and a
\* later get() whose check ran after the stores returned without invoking it.
C14_Witness ==
    /\ AllIdle
    /\ aGets = MaxGets
    /\ aGets > NumThreads
    /\ aCalls = NumThreads
    /\ aEarlyTests = NumThreads
    /\ Len(aStores) = NumThreads

\* C16: get() of the single-owner Cache never panics with a borrow conflict:
\* a view is held only of a populated slot, calc and replace run only on an
\* empty slot, and no Ref (of a view or of the test) is alive when they run.
C16_NoBorrowConflict ==
    /\ [] /\ cPanic # "BorrowMutError"
          /\ cBorrows > 0 => cData # None
          /\ cData = None => CacheReplaceOk
    /\ [][ /\ cCalls' # cCalls =>
                cData = None /\ cBorrows = 0 /\ CacheTestBorrows = 0
           /\ cData' # cData =>
                /\ cData = None /\ cBorrows = 0 /\ CacheTestBorrows = 0
                /\ cCalls' = cCalls + 1
                /\ cBorrows' = 1 ]_vars

\* C16's case: every get() of the budget returned a view and all the views
\* are still held.
C16_Witness ==
    /\ kind = "Cache"
    /\ cPanic = "no"
    /\ cGets = MaxGets
    /\ cBorrows = MaxGets
    /\ cData # None

\* C15: a panic of calc inside get() happens while the caller holds no read
\* guard, no write guard and no RefCell borrow; it leaves the slot and the
\* lock as they were, the RwLock is never poisoned, and later get() calls go
\* on as without the panic, invoking calc again while the slot is empty.
C15_PanicLeavesCacheIntact ==
    /\ [] /\ ~aPoisoned
          /\ ~aPoisonPanic
          /\ cPanic = "no"
          /\ aReaders = TotalViews + Cardinality(At({"test"}))
          /\ \A t \in Threads : t \in Storing <=> aWriter = t
          /\ Stuck => \E t \in Threads : InGet(t) /\ views[t] > 0
          /\ (kind = "Cache" /\ cData = None /\ cGets < MaxGets) =>
                ENABLED CacheGet
    /\ [][ /\ aCalcPanics' # aCalcPanics =>
                /\ \E t \in Threads :
                      /\ pc[t] = "calc" /\ pc'[t] = "idle"
                      /\ aWriter # t
                      /\ views[t] = 0
                      /\ ~PanicPoisons(t)
                /\ aReaders = TotalViews + Cardinality(At({"test"}))
                /\ <<aData, aReaders, aWriter, aStores, views>>' =
                      <<aData, aReaders, aWriter, aStores, views>>
           /\ cCalcPanics' # cCalcPanics =>
                /\ cBorrows = 0
                /\ CacheTestBorrows = 0
                /\ cData = None
                /\ <<cData, cBorrows, cPanic>>' = <<cData, cBorrows, cPanic>>
           /\ \A t \in Threads :
                (pc[t] = "test" /\ pc'[t] # "test") =>
                   pc'[t] = (IF aData = None THEN "calc" ELSE "read2") ]_vars

\* C15's case, AtomicCache: calc panicked, a later get() found the slot still
\* empty, invoked calc again, stored the result and returned a view.
C15_Witness ==
    /\ aCalcPanics >= 1
    /\ aCalls > aCalcPanics
    /\ aData # None
    /\ TotalViews >= 1
    /\ AllIdle

\* C17 as stated: a thread that holds a view and calls get() again is never
\* refused the read lock while no writer holds the lock, even with a writer
\* waiting, so no such state is a deadlock.
C17_ReentrantGetNeverBlocked ==
    /\ \A t \in Threads :
          (views[t] > 0 /\ pc[t] \in {"read1", "read2"} /\ aWriter = NoWriter)
             => CanRead
    /\ ~Stuck

====
